---- MODULE Spec2Model ----
(***************************************************************************)
(* Model of the two utilities of the repository:                           *)
(*   - mark_customer_type.py : CustomerTypeMarker (load, validate,         *)
(*     classify, format, save) and its command line entry point;           *)
(*   - markdown_to_excel.py  : MarkdownToExcelConverter (segmenting,       *)
(*     field extraction, validation, amount cleaning, export) and its      *)
(*     headless entry point;                                               *)
(*   - test_marker.py        : generate_test_data.                         *)
(*                                                                         *)
(* The source uses Chinese string literals; strings of this module are     *)
(* ASCII, so every such literal is written in pinyin:                      *)
(*   "cunliang" = the label written for an existing customer,              *)
(*   "xinzeng"  = the label written for a new customer,                    *)
(* and, in the markdown part, one Chinese character is one element of a    *)
(* character sequence, named by its pinyin ("xing", "ming", ...).          *)
(***************************************************************************)
EXTENDS Integers, Sequences, FiniteSets, TLC

VARIABLES
    \* ---- customer type marker (mark_customer_type.py) ----
    disk,            \* path -> workbook stored on disk, or NoFile
    pc,              \* position of the current invocation
    file_path,       \* CustomerTypeMarker.file_path
    output_path,     \* args.output (None: overwrite the input file)
    df,              \* CustomerTypeMarker.df  (the pandas table)
    pre_2025,        \* pre_2025_customers of mark_customer_types
    ws,              \* CustomerTypeMarker.ws  (the openpyxl cell grid)
    new_count,       \* new_count of mark_customer_types
    existing_count,  \* existing_count of mark_customer_types
    stages,          \* the stages process() has called, with their results
    exit_code,       \* {} while running, then {c}, c the argument of sys.exit
    produced,        \* paths written by save_file of an earlier invocation
    groups,          \* generate_test_data: the loop that produced each row
    \* ---- markdown converter (markdown_to_excel.py) ----
    content,         \* the text read from args.input
    config,          \* MarkdownToExcelConverter.config
    mpc,             \* position of the headless run
    entries,         \* the entries the loops of parse_markdown_content visit
    data,            \* result of parse_markdown_content
    sheet,           \* rows of the main sheet written by export_to_excel
    mexit,           \* {} while running, then {c}, c the exit code
    args,            \* the command line: which options were given
    config_file,     \* {} when no file is at args.config, else {its content}
    input_exists,    \* whether open(args.input) finds the file
    summary,         \* the aggregate sheets written by export_to_excel
    printed,         \* what the headless run has printed
    amount_arg,      \* the argument of a call of clean_amount
    amount_value     \* the value the call returned

mvars == <<disk, pc, file_path, output_path, df, pre_2025, ws, new_count,
           existing_count, stages, exit_code, produced, groups>>
rvars == <<args, config_file, input_exists, summary, printed>>
avars == <<amount_arg, amount_value>>
cvars == <<content, config, mpc, entries, data, sheet, mexit, rvars, avars>>
vars == <<mvars, cvars>>

None == "None"
\* no file at a path
NoFile == [ncols |-> 0, rows |-> << >>]

(***************************************************************************)
(* Cell values.  A value is a record with the same three fields whatever   *)
(* its kind: t = "nan" (empty cell, pandas NaN), "nat" (pandas NaT),       *)
(* "str" (text, in s) or "ts" (a date, in n, written YYYYMMDD so that the  *)
(* order of the integers is the order of the dates).                       *)
(***************************************************************************)
NaN == [t |-> "nan", s |-> "", n |-> 0]
NaT == [t |-> "nat", s |-> "", n |-> 0]
Str(x) == [t |-> "str", s |-> x, n |-> 0]
Ts(d) == [t |-> "ts", s |-> "", n |-> d]

isna(v) == v.t \in {"nan", "nat"}

\* pd.Timestamp('2025-01-01')
year_2025_start == 20250101

\* column positions and first data row
date_col_idx == 2
id_col_idx == 6
mark_col_idx == 19
start_row == 3
MinColumns == 20

COLOR_NEW_CUSTOMER == "C6EFCE"
COLOR_EXISTING_CUSTOMER == "FFEB9C"
NoFill == "00000000"

LabelExisting == "cunliang"
LabelNew == "xinzeng"

\* ---- bounds of the model ----
MaxRows == 2

Paths == {"in.xlsx", "out.xlsx"}

(***************************************************************************)
(* Workbooks.  A workbook is [ncols, rows]; rows is the cell grid of the   *)
(* sheet, one record per grid row with the cells of the columns C, G and T *)
(* (the only ones the tool reads or writes); a cell is [value, fill].      *)
(* Grid row 1 is the title, row 2 the column headers, rows 3.. the data.   *)
(***************************************************************************)
Cell(v, f) == [value |-> v, fill |-> f]
GridRow(c, g, t) == [C |-> c, G |-> g, T |-> t]

TitleRow == GridRow(Cell(NaN, NoFill), Cell(NaN, NoFill), Cell(NaN, NoFill))
HeaderRow == GridRow(Cell(Str("date"), "D3D3D3"), Cell(Str("id"), "D3D3D3"),
                     Cell(Str("type"), "D3D3D3"))

\* what a date cell, an identifier cell and a mark cell of an input file hold
DateCells == {NaN, Str("abc"), Ts(20241231), Ts(20250101)}
IdCells == {NaN, Str("A"), Str("B")}
BlankMark == Cell(NaN, NoFill)
MarkCells == {BlankMark, Cell(Str(LabelNew), COLOR_NEW_CUSTOMER)}

DataRows(marks) == {GridRow(Cell(d, NoFill), Cell(i, NoFill), m) :
                       d \in DateCells, i \in IdCells, m \in marks}

\* the sheets with n data rows and at least MinColumns columns
Sheets(n, marks) ==
    {<<TitleRow, HeaderRow>> \o r : r \in [1..n -> DataRows(marks)]}

\* the same without a column T (fewer than 20 columns)
NarrowRows == {GridRow(Cell(d, NoFill), Cell(i, NoFill), Cell(NaN, NoFill)) :
                d \in {NaN, Ts(20250101)}, i \in {NaN, Str("A")}}
NarrowSheets(n) == {<<TitleRow, HeaderRow>> \o r : r \in [1..n -> NarrowRows]}

\* the workbooks given to the tool; marks: what column T may already hold
InputWorkbooks(marks) ==
    UNION {{[ncols |-> MinColumns, rows |-> g] : g \in Sheets(n, marks)} :
             n \in 1..MaxRows}
    \cup {[ncols |-> MinColumns - 1, rows |-> g] : g \in NarrowSheets(1)}

\* the column letter of a 0-based pandas column index
ColumnLetter(idx) ==
    CASE idx = date_col_idx -> "C"
      [] idx = id_col_idx -> "G"
      [] idx = mark_col_idx -> "T"

DfColumns == {date_col_idx, id_col_idx, mark_col_idx}

(***************************************************************************)
(* pd.read_excel(header=1): grid row 2 is the header, grid row 3 + i is    *)
(* the table row with index i (element i + 1 of the sequence df).  A       *)
(* column beyond the sheet's width does not exist in the table.            *)
(***************************************************************************)
read_excel(wb) ==
    [i \in 1..(Len(wb.rows) - 2) |->
        [c \in {k \in DfColumns : k < wb.ncols} |->
            wb.rows[i + 2][ColumnLetter(c)].value]]

\* pd.to_datetime(x, errors='coerce') on one value: a date cell is kept,
\* an empty cell and a text that is no date ("abc") become NaT
to_datetime(v) == IF v.t = "ts" THEN v ELSE NaT

\* line 97: the table with its date column converted
convert_dates(t) ==
    [i \in DOMAIN t |->
        [t[i] EXCEPT ![date_col_idx] = to_datetime(t[i][date_col_idx])]]

\* a mutant of pre_2025_customers: the rows that already carry a label count
\* as customers seen before
pre_2025_customers_labelled(t) ==
    {t[i][id_col_idx] : i \in {k \in DOMAIN t :
        /\ ~isna(t[k][id_col_idx])
        /\ \/ t[k][date_col_idx].t = "ts" /\ t[k][date_col_idx].n < year_2025_start
           \/ t[k][mark_col_idx] \in {Str(LabelNew), Str(LabelExisting)}}}

\* a mutant of pre_2025_customers: the rows of the last day of 2024 are left out
pre_2025_customers_short(t) ==
    {t[i][id_col_idx] : i \in {k \in DOMAIN t :
        /\ t[k][date_col_idx].t = "ts"
        /\ t[k][date_col_idx].n < 20241231
        /\ ~isna(t[k][id_col_idx])}}

\* lines 103-105, on the converted table:
\* set(df[df[date_col] < year_2025_start][id_col].dropna().unique());
\* a comparison with NaT is False
pre_2025_customers(t) ==
    {t[i][id_col_idx] : i \in {k \in DOMAIN t :
        /\ t[k][date_col_idx].t = "ts"
        /\ t[k][date_col_idx].n < year_2025_start
        /\ ~isna(t[k][id_col_idx])}}

\* a mutant of reset_mark: the mark column is not reset
reset_mark_kept(row) == row

\* line 110: self.df[mark_col] = ''
reset_mark(row) == [row EXCEPT ![mark_col_idx] = Str("")]

\* a mutant of mark_row: the cutoff day itself counts as before the cutoff
mark_row_inclusive(row, pre) ==
    LET order_date == row[date_col_idx]
        customer_id == row[id_col_idx]
    IN  IF isna(order_date) \/ isna(customer_id) THEN row
        ELSE IF order_date.n <= year_2025_start
             THEN [row EXCEPT ![mark_col_idx] = Str(LabelExisting)]
        ELSE IF customer_id \in pre
             THEN [row EXCEPT ![mark_col_idx] = Str(LabelExisting)]
        ELSE [row EXCEPT ![mark_col_idx] = Str(LabelNew)]

\* a mutant of mark_row: the two labels are exchanged in the first branch
mark_row_swapped(row, pre) ==
    LET order_date == row[date_col_idx]
        customer_id == row[id_col_idx]
    IN  IF isna(order_date) \/ isna(customer_id) THEN row
        ELSE IF order_date.n < year_2025_start
             THEN [row EXCEPT ![mark_col_idx] = Str(LabelNew)]
        ELSE IF customer_id \in pre
             THEN [row EXCEPT ![mark_col_idx] = Str(LabelExisting)]
        ELSE [row EXCEPT ![mark_col_idx] = Str(LabelNew)]

\* lines 117-137: the body of the loop of mark_customer_types for one row
mark_row(row, pre) ==
    LET order_date == row[date_col_idx]
        customer_id == row[id_col_idx]
    IN  IF isna(order_date) \/ isna(customer_id) THEN row
        ELSE IF order_date.n < year_2025_start
             THEN [row EXCEPT ![mark_col_idx] = Str(LabelExisting)]
        ELSE IF customer_id \in pre
             THEN [row EXCEPT ![mark_col_idx] = Str(LabelExisting)]
        ELSE [row EXCEPT ![mark_col_idx] = Str(LabelNew)]

\* lines 110-137: the converted table after the reset and the loop
label_rows(t, pre) ==
    [i \in DOMAIN t |-> mark_row(reset_mark(t[i]), pre)]

CountLabel(t, label) ==
    Cardinality({i \in DOMAIN t : t[i][mark_col_idx] = Str(label)})

\* the loop body of apply_formatting for the table row with index idx
format_cell(cell, mark_value) ==
    LET valued == [cell EXCEPT !.value = mark_value]
    IN  IF mark_value = Str(LabelNew)
        THEN [valued EXCEPT !.fill = COLOR_NEW_CUSTOMER]
        ELSE IF mark_value = Str(LabelExisting)
        THEN [valued EXCEPT !.fill = COLOR_EXISTING_CUSTOMER]
        ELSE valued

\* a mutant of apply_formatting: the first data row is taken to be row 2
apply_formatting_from_header(grid, t) ==
    [r \in DOMAIN grid |->
        IF r >= 2 /\ (r - 1) \in DOMAIN t
        THEN [grid[r] EXCEPT !.T = format_cell(grid[r].T, t[r - 1][mark_col_idx])]
        ELSE grid[r]]

\* lines 167-179: the grid after apply_formatting
apply_formatting(grid, t) ==
    [r \in DOMAIN grid |->
        IF r >= start_row /\ (r - start_row + 1) \in DOMAIN t
        THEN [grid[r] EXCEPT !.T = format_cell(grid[r].T,
                                    t[r - start_row + 1][mark_col_idx])]
        ELSE grid[r]]

(***************************************************************************)
(* The command line run of mark_customer_type.py.  pc is "main" before     *)
(* main() has chosen a file, then the stage process() is about to call,    *)
(* and "exit" once sys.exit was called.                                    *)
(***************************************************************************)
StageOrder == <<"load", "validate", "classify", "format", "save">>

Stage(name, ok) == [stage |-> name, ok |-> ok]

\* main, lines 278-311: a file path is given or chosen; process() starts
MainProcess ==
    /\ pc = "main"
    /\ \E f \in Paths, o \in {None, "out.xlsx"} :
          /\ file_path' = f
          /\ output_path' = o
    /\ pc' = "load"
    /\ UNCHANGED <<disk, df, pre_2025, ws, new_count, existing_count, stages,
                   exit_code, produced, groups>>
    /\ UNCHANGED cvars

\* main, lines 282-307: no file found, an invalid choice or a cancelled prompt
MainCancel ==
    /\ pc = "main"
    /\ pc' = "exit"
    /\ exit_code' = {1}
    /\ UNCHANGED <<disk, file_path, output_path, df, pre_2025, ws, new_count,
                   existing_count, stages, produced, groups>>
    /\ UNCHANGED cvars

\* process() returned False: sys.exit(1)
Fail(name) ==
    /\ stages' = Append(stages, Stage(name, FALSE))
    /\ pc' = "exit"
    /\ exit_code' = {1}

\* load_data, lines 37-58
LoadData ==
    /\ pc = "load"
    /\ IF disk[file_path] = NoFile
       THEN /\ Fail("load")
            /\ UNCHANGED <<df, ws>>
       ELSE /\ df' = read_excel(disk[file_path])
            /\ ws' = disk[file_path].rows
            /\ stages' = Append(stages, Stage("load", TRUE))
            /\ pc' = "validate"
            /\ UNCHANGED exit_code
    /\ UNCHANGED <<disk, file_path, output_path, pre_2025, new_count,
                   existing_count, produced, groups>>
    /\ UNCHANGED cvars

\* a mutant of ValidateColumns: process() goes on after a failed validation
ValidateColumnsIgnored ==
    /\ pc = "validate"
    /\ stages' = Append(stages, Stage("validate", disk[file_path].ncols >= MinColumns))
    /\ pc' = "classify"
    /\ UNCHANGED <<disk, file_path, output_path, df, pre_2025, ws, new_count,
                   existing_count, exit_code, produced, groups>>
    /\ UNCHANGED cvars

\* validate_columns, lines 60-72
ValidateColumns ==
    /\ pc = "validate"
    /\ IF disk[file_path].ncols < MinColumns
       THEN Fail("validate")
       ELSE /\ stages' = Append(stages, Stage("validate", TRUE))
            /\ pc' = "classify"
            /\ UNCHANGED exit_code
    /\ UNCHANGED <<disk, file_path, output_path, df, pre_2025, ws, new_count,
                   existing_count, produced, groups>>
    /\ UNCHANGED cvars

\* mark_customer_types, lines 74-148; the except branch is taken when a
\* library call raises
MarkCustomerTypes ==
    /\ pc = "classify"
    /\ \/ /\ pre_2025' = pre_2025_customers(convert_dates(df))
          /\ df' = label_rows(convert_dates(df), pre_2025')
          /\ new_count' = CountLabel(df', LabelNew)
          /\ existing_count' = CountLabel(df', LabelExisting)
          /\ stages' = Append(stages, Stage("classify", TRUE))
          /\ pc' = "format"
          /\ UNCHANGED exit_code
       \/ /\ Fail("classify")
          /\ UNCHANGED <<df, pre_2025, new_count, existing_count>>
    /\ UNCHANGED <<disk, file_path, output_path, ws, produced, groups>>
    /\ UNCHANGED cvars

\* apply_formatting, lines 150-187
ApplyFormatting ==
    /\ pc = "format"
    /\ \/ /\ ws' = apply_formatting(ws, df)
          /\ stages' = Append(stages, Stage("format", TRUE))
          /\ pc' = "save"
          /\ UNCHANGED exit_code
       \/ /\ Fail("format")
          /\ UNCHANGED ws
    /\ UNCHANGED <<disk, file_path, output_path, df, pre_2025, new_count,
                   existing_count, produced, groups>>
    /\ UNCHANGED cvars

\* save_file, lines 189-200, and the end of process() and main()
SaveFile ==
    /\ pc = "save"
    /\ LET target == IF output_path = None THEN file_path ELSE output_path
       IN  \/ /\ disk' = [disk EXCEPT ![target] =
                            [ncols |-> disk[file_path].ncols, rows |-> ws]]
              /\ produced' = produced \cup {target}
              /\ stages' = Append(stages, Stage("save", TRUE))
              /\ pc' = "exit"
              /\ exit_code' = {0}
           \/ /\ Fail("save")
              /\ UNCHANGED <<disk, produced>>
    /\ UNCHANGED <<file_path, output_path, df, pre_2025, ws, new_count,
                   existing_count, groups>>
    /\ UNCHANGED cvars

\* the tool is started again on the files as they now are
Invoke ==
    /\ pc = "exit"
    /\ pc' = "main"
    /\ file_path' = None
    /\ output_path' = None
    /\ df' = << >>
    /\ pre_2025' = {}
    /\ ws' = << >>
    /\ new_count' = 0
    /\ existing_count' = 0
    /\ stages' = << >>
    /\ exit_code' = {}
    /\ UNCHANGED <<disk, produced, groups>>
    /\ UNCHANGED cvars

MarkerInit(wb) ==
    /\ disk = [p \in Paths |-> IF p = "in.xlsx" THEN wb ELSE NoFile]
    /\ pc = "main"
    /\ file_path = None
    /\ output_path = None
    /\ df = << >>
    /\ pre_2025 = {}
    /\ ws = << >>
    /\ new_count = 0
    /\ existing_count = 0
    /\ stages = << >>
    /\ exit_code = {}
    /\ produced = {}

\* the command line of markdown_to_excel.py, lines 579-587: no_gui and
\* no_summary are flags; input and config tell whether a path was given
Args(no_gui, input, cfg, no_summary) ==
    [no_gui |-> no_gui, input |-> input, config |-> cfg, no_summary |-> no_summary]
NoArgs == Args(FALSE, FALSE, FALSE, FALSE)
\* the value of amount_value before clean_amount returned
NoAmount == [int |-> 0, frac |-> << >>]

ConverterIdle ==
    /\ content = << >>
    /\ config = None
    /\ mpc = "idle"
    /\ entries = << >>
    /\ data = << >>
    /\ sheet = << >>
    /\ mexit = {}
    /\ args = NoArgs
    /\ config_file = {}
    /\ input_exists = FALSE
    /\ summary = << >>
    /\ printed = << >>
    /\ amount_arg = << >>
    /\ amount_value = NoAmount

\* one invocation of the tool on any workbook
Init ==
    /\ \E wb \in InputWorkbooks(MarkCells) : MarkerInit(wb)
    /\ groups = << >>
    /\ ConverterIdle

Next ==
    \/ MainProcess
    \/ MainCancel
    \/ LoadData
    \/ ValidateColumns
    \/ MarkCustomerTypes
    \/ ApplyFormatting
    \/ SaveFile

Spec == Init /\ [][Next]_vars

\* repeated invocations of the tool on the files it finds and leaves
InitRerun ==
    /\ \E wb \in InputWorkbooks(MarkCells) : MarkerInit(wb)
    /\ groups = << >>
    /\ ConverterIdle

NextRerun ==
    \/ MainProcess
    \/ MainCancel
    \/ LoadData
    \/ ValidateColumns
    \/ MarkCustomerTypes
    \/ ApplyFormatting
    \/ SaveFile
    \/ Invoke

SpecRerun == InitRerun /\ [][NextRerun]_vars

(***************************************************************************)
(* test_marker.generate_test_data.  The workbook has Num2024Orders rows    *)
(* dated in 2024 with identifiers drawn from old_customers, then           *)
(* Num2025OldOrders rows dated in 2025 with identifiers drawn from         *)
(* old_customers, then Num2025NewOrders rows dated in 2025 with            *)
(* identifiers drawn from new_customers; column T is left blank.  The      *)
(* source draws 50, 30 and 20 rows from pools of 70 and 30 identifiers;    *)
(* the model keeps the pool of old customers larger than the number of     *)
(* rows of 2024, as in the source.                                         *)
(***************************************************************************)
NumOldCustomers == 2
NumNewCustomers == 1
Num2024Orders == 1
Num2025OldOrders == 1
Num2025NewOrders == 1

\* lines 47-54: the prefixes 3301 and 3302 keep the two pools disjoint
\* (the k-th identifier of a pool is written prefix, k)
old_customers == {[t |-> "str", s |-> "3301", n |-> k] : k \in 1..NumOldCustomers}
new_customers == {[t |-> "str", s |-> "3302", n |-> k] : k \in 1..NumNewCustomers}

\* lines 62-65 and 93-96: base date + randint(0, 364), base date + randint(0, 90)
Dates2024 == {Ts(20240101), Ts(20241230)}
Dates2025 == {Ts(20250101), Ts(20250401)}

OrderRows(dates, ids) ==
    {GridRow(Cell(d, NoFill), Cell(i, NoFill), BlankMark) : d \in dates, i \in ids}

\* lines 56-147
generate_test_data ==
    {[ncols |-> MinColumns,
      rows |-> <<TitleRow, HeaderRow>> \o a \o b \o c] :
        a \in [1..Num2024Orders -> OrderRows(Dates2024, old_customers)],
        b \in [1..Num2025OldOrders -> OrderRows(Dates2025, old_customers)],
        c \in [1..Num2025NewOrders -> OrderRows(Dates2025, new_customers)]}

\* the loop of generate_test_data that wrote each data row
TestGroups ==
    [i \in 1..(Num2024Orders + Num2025OldOrders + Num2025NewOrders) |->
        IF i <= Num2024Orders THEN "2024"
        ELSE IF i <= Num2024Orders + Num2025OldOrders THEN "2025old"
        ELSE "2025new"]

\* one invocation of the tool on a workbook of generate_test_data
InitTest ==
    /\ \E wb \in generate_test_data : MarkerInit(wb)
    /\ groups = TestGroups
    /\ ConverterIdle

SpecTest == InitTest /\ [][Next]_vars

(***************************************************************************)
(* markdown_to_excel.py.  A text is a sequence of characters; a character  *)
(* is a string: an ASCII character stands for itself, the newline is "\n", *)
(* and a Chinese character or full-width sign is named in pinyin:          *)
(*   "fcolon" = full-width colon, "fsemi" = full-width semicolon,          *)
(*   "fstop" = ideographic full stop, "yuan" = the currency sign of an     *)
(*   amount, "zhang" "san" and "li" "si" = the two customer names, and     *)
(*   the characters of the field labels (see Label... below).              *)
(***************************************************************************)
Whitespace == {" ", "\n"}
Digits == {"0", "1", "2", "3", "4", "5", "6", "7", "8", "9"}
Colons == {"fcolon", ":"}
Semicolons == {"fsemi", ";"}
\* the characters of rstrip('；;。.')
TrailingPunctuation == {"fsemi", ";", "fstop", "."}
\* the characters of [\d\(\)\[\]/\\\-_=+] besides the digits
NameForbidden == Digits \cup {"(", ")", "[", "]", "/", "\\", "-", "_", "=", "+"}

\* s[a:b] of Python with 1-based a and exclusive b: the characters a..b-1
Slice(s, a, b) == IF a >= b THEN << >> ELSE SubSeq(s, a, b - 1)

RECURSIVE lstrip(_)
lstrip(s) ==
    IF s # << >> /\ Head(s) \in Whitespace THEN lstrip(Tail(s)) ELSE s

RECURSIVE rstrip_chars(_, _)
rstrip_chars(s, chars) ==
    IF s # << >> /\ s[Len(s)] \in chars
    THEN rstrip_chars(SubSeq(s, 1, Len(s) - 1), chars)
    ELSE s

\* str.strip()
strip(s) == rstrip_chars(lstrip(s), Whitespace)

\* whether the literal lit occurs in s at position p
LitAt(s, p, lit) ==
    /\ p >= 1
    /\ p + Len(lit) - 1 <= Len(s)
    /\ SubSeq(s, p, p + Len(lit) - 1) = lit

\* the position of the first occurrence of lit in s at or after from, or 0
RECURSIVE FindLit(_, _, _)
FindLit(s, lit, from) ==
    IF from + Len(lit) - 1 > Len(s) THEN 0
    ELSE IF LitAt(s, from, lit) THEN from
    ELSE FindLit(s, lit, from + 1)

\* re.split / str.split on a literal separator
RECURSIVE split(_, _)
split(s, sep) ==
    LET p == FindLit(s, sep, 1)
    IN  IF p = 0 THEN <<s>>
        ELSE <<Slice(s, 1, p)>> \o split(Slice(s, p + Len(sep), Len(s) + 1), sep)

\* the length of the run of characters of the set chars that starts at p
RECURSIVE RunLength(_, _, _)
RunLength(s, p, chars) ==
    IF p <= Len(s) /\ s[p] \in chars THEN 1 + RunLength(s, p + 1, chars) ELSE 0

\* the length of the run of characters outside the set chars that starts at p
RECURSIVE RunLengthNot(_, _, _)
RunLengthNot(s, p, chars) ==
    IF p <= Len(s) /\ s[p] \notin chars THEN 1 + RunLengthNot(s, p + 1, chars) ELSE 0

\* the default date_pattern, ## (\d{4}-\d{2}-\d{2}), matched at position p
DateAt(s, p) ==
    /\ p + 12 <= Len(s)
    /\ s[p] = "#" /\ s[p + 1] = "#" /\ s[p + 2] = " "
    /\ \A k \in {3, 4, 5, 6, 8, 9, 11, 12} : s[p + k] \in Digits
    /\ s[p + 7] = "-" /\ s[p + 10] = "-"

\* re.search(date_pattern, s[from:]): the position of the first match at or
\* after from, or 0
RECURSIVE date_search(_, _)
date_search(s, from) ==
    IF from + 12 > Len(s) THEN 0
    ELSE IF DateAt(s, from) THEN from
    ELSE date_search(s, from + 1)

\* the date of a section that is not under a date heading (None)
NoDate == << >>

Section(date, text, start) == [date |-> date, text |-> text, start |-> start]

\* a mutant of section_end: every dated section runs to the end of the text
section_end_total(s, match_end) == Len(s) + 1

\* lines 99-103: where the section of the match that ends before match_end ends
section_end(s, match_end) ==
    LET next_date == date_search(s, match_end)
    IN  IF next_date # 0 THEN next_date ELSE Len(s) + 1

\* lines 93-106: the loop over re.finditer(date_pattern, content); from is
\* where finditer goes on searching, last_end the end of the last section
RECURSIVE sections_from(_, _, _)
sections_from(s, from, last_end) ==
    LET m == date_search(s, from)
    IN  IF m = 0 THEN << >>
        ELSE LET match_end == m + 13
                 send == section_end(s, match_end)
             IN  (IF last_end < m
                  THEN <<Section(NoDate, Slice(s, last_end, m), last_end)>>
                  ELSE << >>)
                 \o <<Section(Slice(s, m + 3, m + 13), Slice(s, m, send), m)>>
                 \o sections_from(s, match_end, send)

sections(s) == sections_from(s, 1, 1)

\* a mutant of skip_section: the text before the first heading is parsed too
skip_section_never(section) == FALSE

\* lines 110-111: if date is None: continue
skip_section(section) == section.date = NoDate

RECURSIVE Flatten(_)
Flatten(ss) == IF ss = << >> THEN << >> ELSE Head(ss) \o Flatten(Tail(ss))

\* lines 116-120: the entries of one section that the loop does not skip
section_entries(section) ==
    LET parts == Tail(split(section.text, <<"#", "#", "#", " ">>))
        NonBlank(e) == strip(e) # << >>
        kept == SelectSeq(parts, NonBlank)
    IN  [k \in DOMAIN kept |-> [date |-> section.date, text |-> kept[k]]]

\* lines 109-120: the entries the loops of parse_markdown_content visit
raw_entries(s) ==
    LET secs == sections(s)
        Dated(sec) == ~skip_section(sec)
        kept == SelectSeq(secs, Dated)
    IN  Flatten([k \in DOMAIN kept |-> section_entries(kept[k])])

(***************************************************************************)
(* Field names and labels.  A field name is the key of a record (a         *)
(* string); its label is the text the field pattern looks for.             *)
(*   "riqi" = the date key, "xingming" = name, "jiaoyibishu" = number of   *)
(*   transactions, "jiaoyijine" = amount, "jiaoyiriqi" = transaction date, *)
(*   "jiaoyishijian" = time, "jiaoyiliushuihao" = reference number,        *)
(*   "zhifufangshi" = payment method, "shanghu" = merchant, "beizhu" =     *)
(*   note, "jineshuzhi" = the derived numeric amount.                      *)
(***************************************************************************)
\* the default field patterns, lines 39-49: label, then the characters of an
\* optional class repeated after it ([...]*), then [：:]\s*([^；;]+)
FieldPattern(name, label, class) == [name |-> name, label |-> label, class |-> class]

default_field_patterns == <<
    FieldPattern("xingming", <<"xing", "ming">>, {}),
    FieldPattern("jiaoyibishu", <<"jiao", "yi", "bi", "shu">>, {}),
    FieldPattern("jiaoyijine", <<"jiao", "yi", "jin", "e">>, {}),
    FieldPattern("jiaoyiriqi", <<"jiao", "yi", "ri", "qi">>, {}),
    FieldPattern("jiaoyishijian", <<"jiao", "yi", "shi2", "jian">>, {}),
    FieldPattern("jiaoyiliushuihao", <<"jiao", "yi", "liu", "shui", "hao">>,
                 {"/", "ding", "dan", "hao", "jiao", "yi", "liu", "shui"}),
    FieldPattern("zhifufangshi", <<"zhi", "fu", "fang", "shi4">>, {}),
    FieldPattern("shanghu", <<"shang", "hu">>, {}),
    FieldPattern("beizhu", <<"bei", "zhu">>, {}) >>

\* the default header name patterns, lines 50-54: ^prefix[：:]\s*(.+?)(?:\s|$),
\* and ^(.+?)(?:\s|$) for the empty prefix
default_header_name_patterns == <<
    <<"ke", "hu", "xing", "ming">>,
    <<"xing", "ming">>,
    << >> >>

\* lines 36-37: the two patterns are kept as their texts
default_date_pattern == "## (\\d{4}-\\d{2}-\\d{2})"
default_entry_pattern == "### (.+?)(?=###|##|$)"

\* the keys of the three sections of a configuration; the model writes
\* config[section][key] as config[key]
ParsingKeys == {"date_pattern", "entry_pattern", "header_name_extraction",
                "field_patterns", "header_name_patterns"}
OutputKeys == {"excel_filename", "sheet_name", "include_summary",
               "auto_resize_columns"}
ValidationKeys == {"required_fields", "amount_validation", "date_validation"}

\* load_default_config, lines 32-67
load_default_config ==
    [date_pattern |-> default_date_pattern,
     entry_pattern |-> default_entry_pattern,
     header_name_extraction |-> TRUE,
     field_patterns |-> default_field_patterns,
     header_name_patterns |-> default_header_name_patterns,
     excel_filename |-> "zhuanhuanjieguo_{timestamp}.xlsx",
     sheet_name |-> "jiaoyijilu",
     include_summary |-> TRUE,
     auto_resize_columns |-> TRUE,
     required_fields |-> <<"xingming", "jiaoyijine">>,
     amount_validation |-> TRUE,
     date_validation |-> TRUE]

\* a pattern text that re cannot compile, "(": re.search raises re.error
BadPattern == <<"(">>
re_error(pattern) == pattern = BadPattern

\* config[section].get(key, default)
cfg_get(cfg, key, default) == IF key \in DOMAIN cfg THEN cfg[key] ELSE default

\* a match object: ok, and group(1)
NoMatch == [ok |-> FALSE, group |-> << >>]
Match(g) == [ok |-> TRUE, group |-> g]

(***************************************************************************)
(* \s*(X) at position q of s, where X needs at least one character: the    *)
(* greedy \s* takes the whole run of whitespace; when no character of X    *)
(* follows it, it gives one whitespace character back, which X then takes. *)
(* GroupStart is the position X starts at, or 0; excluded are the          *)
(* characters X does not take.                                             *)
(***************************************************************************)
GroupStart(s, q, excluded) ==
    LET w == RunLength(s, q, Whitespace)
        r == q + w
    IN  IF r <= Len(s) /\ s[r] \notin excluded THEN r
        ELSE IF w >= 1 /\ s[r - 1] \notin excluded THEN r - 1
        ELSE 0

\* a field pattern tried at position p of the entry
field_match_at(pattern, entry, p) ==
    IF ~LitAt(entry, p, pattern.label) THEN NoMatch
    ELSE LET c == p + Len(pattern.label)
                  + RunLength(entry, p + Len(pattern.label), pattern.class)
         IN  IF ~(c <= Len(entry) /\ entry[c] \in Colons) THEN NoMatch
             ELSE LET g == GroupStart(entry, c + 1, Semicolons)
                  IN  IF g = 0 THEN NoMatch
                      \* ([^；;]+) is greedy: up to the next semicolon or the end
                      ELSE Match(Slice(entry, g, g + RunLengthNot(entry, g, Semicolons)))

\* line 131: re.search(pattern, entry)
RECURSIVE field_search_from(_, _, _)
field_search_from(pattern, entry, p) ==
    IF p > Len(entry) THEN NoMatch
    ELSE LET m == field_match_at(pattern, entry, p)
         IN  IF m.ok THEN m ELSE field_search_from(pattern, entry, p + 1)

field_search(pattern, entry) == field_search_from(pattern, entry, 1)

\* a header name pattern on the first line (anchored at its start);
\* '.' matches no newline, and the line holds none
header_match(prefix, first_line) ==
    LET q == IF prefix = << >> THEN 1 ELSE Len(prefix) + 2
    IN  IF prefix # << >> /\
           ~(/\ LitAt(first_line, 1, prefix)
             /\ Len(first_line) > Len(prefix)
             /\ first_line[Len(prefix) + 1] \in Colons)
        THEN NoMatch
        ELSE LET g == IF prefix = << >>
                      THEN (IF first_line # << >> THEN 1 ELSE 0)
                      ELSE GroupStart(first_line, q, {"\n"})
             IN  IF g = 0 THEN NoMatch
                 \* (.+?)(?:\s|$): one character, then up to the next whitespace
                 ELSE Match(Slice(first_line, g,
                                  g + 1 + RunLengthNot(first_line, g + 1, Whitespace)))

\* line 178: the length and the characters of an accepted name
name_accepted(name) ==
    /\ 1 <= Len(name)
    /\ Len(name) <= 10
    /\ \A k \in DOMAIN name : name[k] \notin NameForbidden

\* lines 170-184: the first pattern that matches and yields an accepted name
RECURSIVE header_name_from(_, _)
header_name_from(patterns, first_line) ==
    IF patterns = << >> THEN << >>
    \* lines 181-183: except re.error: continue
    ELSE IF re_error(Head(patterns)) THEN header_name_from(Tail(patterns), first_line)
    ELSE LET m == header_match(Head(patterns), first_line)
             name == rstrip_chars(strip(m.group), TrailingPunctuation)
         IN  IF m.ok /\ name_accepted(name) THEN name
             ELSE header_name_from(Tail(patterns), first_line)

\* extract_name_from_header, lines 150-184; << >> stands for None
extract_name_from_header(entry, cfg) ==
    IF ~cfg_get(cfg, "header_name_extraction", TRUE) THEN << >>
    ELSE LET lines == split(strip(entry), <<"\n">>)
             first_line == strip(lines[1])
         IN  header_name_from(cfg_get(cfg, "header_name_patterns",
                                      default_header_name_patterns),
                              first_line)

\* record.get(key, "")
get(record, key) == IF key \in DOMAIN record THEN record[key] ELSE << >>

\* record[key] = value
set(record, key, value) == (key :> value) @@ record

\* a mutant of extract_field: a field whose pattern does not match is emptied
extract_field_emptied(record, pattern, entry) ==
    LET match == field_search(pattern, entry)
    IN  IF match.ok
        THEN set(record, pattern.name,
                 rstrip_chars(strip(match.group), TrailingPunctuation))
        ELSE set(record, pattern.name, << >>)

\* a mutant of extract_field: a name already set is kept
extract_field_name_kept(record, pattern, entry) ==
    LET match == field_search(pattern, entry)
    IN  IF match.ok /\ ~(pattern.name = "xingming" /\ get(record, "xingming") # << >>)
        THEN set(record, pattern.name,
                 rstrip_chars(strip(match.group), TrailingPunctuation))
        ELSE set(record, pattern.name, get(record, pattern.name))

\* lines 131-142: one turn of the loop over the field patterns
extract_field(record, pattern, entry) ==
    LET match == field_search(pattern, entry)
    IN  IF match.ok
        THEN set(record, pattern.name,
                 rstrip_chars(strip(match.group), TrailingPunctuation))
        ELSE IF pattern.name = "xingming" /\ get(record, "xingming") = << >>
             THEN set(record, pattern.name, << >>)
             ELSE set(record, pattern.name, get(record, pattern.name))

RECURSIVE extract_fields(_, _, _)
extract_fields(record, patterns, entry) ==
    IF patterns = << >> THEN record
    ELSE extract_fields(extract_field(record, Head(patterns), entry),
                        Tail(patterns), entry)

\* lines 122-142: the record of one entry
extract_record(e, cfg) ==
    LET header_name == extract_name_from_header(e.text, cfg)
        dated == ("riqi" :> e.date)
        named == IF header_name # << >> THEN set(dated, "xingming", header_name)
                 ELSE dated
    IN  extract_fields(named, cfg.field_patterns, e.text)

\* a mutant of has_number: re.match in place of re.search, the digit must
\* be the first character
has_number_anchored(amount) == amount # << >> /\ amount[1] \in Digits

\* re.search(r'\d+\.?\d*', amount): a digit occurs
has_number(amount) == \E k \in DOMAIN amount : amount[k] \in Digits

\* a mutant of validate_record: the loop returns after the first required field
validate_record_first_only(record, cfg) ==
    IF cfg.required_fields = << >> THEN TRUE
    ELSE IF strip(get(record, cfg.required_fields[1])) = << >> THEN FALSE
    ELSE IF cfg.amount_validation
            /\ get(record, "jiaoyijine") # << >>
            /\ ~has_number(get(record, "jiaoyijine"))
         THEN FALSE
    ELSE TRUE

\* validate_record, lines 186-201
validate_record(record, cfg) ==
    IF cfg.required_fields = << >> THEN TRUE
    ELSE IF \E k \in DOMAIN cfg.required_fields :
                strip(get(record, cfg.required_fields[k])) = << >>
         THEN FALSE
    ELSE IF cfg.amount_validation
            /\ get(record, "jiaoyijine") # << >>
            /\ ~has_number(get(record, "jiaoyijine"))
         THEN FALSE
    ELSE TRUE

\* a mutant of parse_markdown_content: the entries are searched with the
\* configured entry pattern, and another pattern than the default one
\* finds none
parse_markdown_content_by_pattern(s, cfg) ==
    LET es == IF cfg.entry_pattern = default_entry_pattern
              THEN raw_entries(s) ELSE << >>
        records == [k \in DOMAIN es |-> extract_record(es[k], cfg)]
        Valid(r) == validate_record(r, cfg)
    IN  SelectSeq(records, Valid)

\* parse_markdown_content, lines 80-148
parse_markdown_content(s, cfg) ==
    LET es == raw_entries(s)
        records == [k \in DOMAIN es |-> extract_record(es[k], cfg)]
        Valid(r) == validate_record(r, cfg)
    IN  SelectSeq(records, Valid)

(***************************************************************************)
(* Amounts.  A float is written [int, frac]: its integer part and the      *)
(* digits of its fraction without trailing zeros (100.50 is [100, <<5>>]). *)
(***************************************************************************)
Float(int, frac) == [int |-> int, frac |-> frac]

DigitValue(d) ==
    CASE d = "0" -> 0 [] d = "1" -> 1 [] d = "2" -> 2 [] d = "3" -> 3
      [] d = "4" -> 4 [] d = "5" -> 5 [] d = "6" -> 6 [] d = "7" -> 7
      [] d = "8" -> 8 [] d = "9" -> 9

RECURSIVE ToNat(_)
ToNat(ds) ==
    IF ds = << >> THEN 0
    ELSE 10 * ToNat(SubSeq(ds, 1, Len(ds) - 1)) + DigitValue(ds[Len(ds)])

\* float(text) for a text matched by \d+\.?\d*
to_float(text) ==
    LET n == RunLength(text, 1, Digits)
        frac == IF n < Len(text) THEN Slice(text, n + 2, Len(text) + 1) ELSE << >>
    IN  Float(ToNat(Slice(text, 1, n + 1)), rstrip_chars(frac, {"0"}))

\* whether float(text) returns for a text of digits and points (it raises
\* ValueError otherwise): digits with at most one point among them
float_accepts(text) ==
    /\ \E k \in DOMAIN text : text[k] \in Digits
    /\ \A k \in DOMAIN text : text[k] \in Digits \cup {"."}
    /\ Cardinality({k \in DOMAIN text : text[k] = "."}) <= 1

\* a mutant of remove_commas: the commas stay
remove_commas_kept(text) == text

\* amount_str.replace(',', '')
remove_commas(text) == SelectSeq(text, LAMBDA ch : ch # ",")

\* line 209: group(1) of re.search(r'(\d+\.?\d*)', text), << >> without a match
amount_match(text) ==
    LET p == CHOOSE k \in 1..(Len(text) + 1) :
                /\ k = Len(text) + 1 \/ text[k] \in Digits
                /\ \A j \in 1..(k - 1) : text[j] \notin Digits
    IN  IF p > Len(text) THEN << >>
        ELSE LET n == RunLength(text, p, Digits)
                 dot == p + n <= Len(text) /\ text[p + n] = "."
                 m == IF dot THEN n + 1 + RunLength(text, p + n + 1, Digits)
                      ELSE n
             IN  Slice(text, p, p + m)

\* clean_amount, lines 203-212
clean_amount(amount_str) ==
    IF amount_str = << >> THEN Float(0, << >>)
    ELSE LET match == amount_match(remove_commas(amount_str))
         IN  IF match # << >> THEN to_float(match) ELSE Float(0, << >>)

\* whether the call float(match.group(1)) of line 211 raises
clean_amount_raises(amount_str) ==
    /\ amount_str # << >>
    /\ amount_match(remove_commas(amount_str)) # << >>
    /\ ~float_accepts(amount_match(remove_commas(amount_str)))

\* lines 219-223: the rows of the main sheet
main_sheet(records) ==
    [k \in DOMAIN records |->
        IF \E j \in DOMAIN records : "jiaoyijine" \in DOMAIN records[j]
        THEN set(records[k], "jineshuzhi",
                 clean_amount(get(records[k], "jiaoyijine")))
        ELSE records[k]]

(***************************************************************************)
(* The texts given to the converter: up to MaxFragments of the fragments   *)
(* below, one after the other, and the document of the segmenter example.  *)
(***************************************************************************)
\* the date heading of 2024-01-01
Heading1 ==
    <<"#", "#", " ", "2", "0", "2", "4", "-", "0", "1", "-", "0", "1",
      "\n">>

\* the date heading of 2024-01-02
Heading2 ==
    <<"#", "#", " ", "2", "0", "2", "4", "-", "0", "1", "-", "0", "2",
      "\n">>

\* an entry whose first line is a bare name, with a labelled amount
EntryBareName ==
    <<"#", "#", "#", " ", "zhang", "san", "\n", "jiao", "yi", "jin", "e",
      "fcolon", "1", "0", "0", ".", "5", "0", "yuan", "fsemi", "\n">>

\* an entry with a labelled name, and an amount with a thousands comma
EntryLabelledName ==
    <<"#", "#", "#", " ", "xing", "ming", "fcolon", "li", "si", "fsemi",
      "jiao", "yi", "jin", "e", "fcolon", "1", ",", "2", "3", "4", ".",
      "5", "yuan", "\n">>

\* an entry without an amount
EntryNoAmount ==
    <<"#", "#", "#", " ", "zhang", "san", "\n", "bei", "zhu", "fcolon",
      "a", "b", "c", "fsemi", "\n">>

\* an entry whose amount holds no digit
EntryAmountNoDigit ==
    <<"#", "#", "#", " ", "li", "si", "\n", "jiao", "yi", "jin", "e",
      "fcolon", "a", "b", "c", "fsemi", "\n">>

\* an entry marker followed by nothing but a newline
BlankEntry ==
    <<"#", "#", "#", " ", "\n">>

\* an entry whose first line is a bare name ("zhang" "san") and whose
\* second line holds another, labelled, name ("li" "si")
EntryBothNames ==
    <<"#", "#", "#", " ", "zhang", "san", "\n", "xing", "ming", "fcolon",
      "li", "si", "fsemi", "jiao", "yi", "jin", "e", "fcolon", "7", "yuan",
      "fsemi", "\n">>

\* a lone '#' (it makes '####' of an entry marker and '###' of a heading)
Hash ==
    <<"#">>

Fragments == {Heading1, Heading2, EntryBareName, EntryLabelledName,
              EntryNoAmount, EntryAmountNoDigit, BlankEntry, Hash}

MaxFragments == 3

\* two date headings, three entries under the first and one under the second
ExampleDocument ==
    Heading1 \o EntryBareName \o EntryLabelledName \o EntryBareName
    \o Heading2 \o EntryLabelledName

Documents ==
    {Flatten(fs) : fs \in UNION {[1..n -> Fragments] : n \in 0..MaxFragments}}
    \cup {ExampleDocument}
    \cup {Heading1 \o EntryBothNames, Heading1 \o EntryBareName \o EntryBothNames}

\* the configurations the converter runs with: the default one, and the
\* default one with other validation rules or without header names
Configs ==
    {load_default_config,
     [load_default_config EXCEPT !.required_fields = << >>],
     [load_default_config EXCEPT !.required_fields = <<"beizhu">>,
                                 !.amount_validation = FALSE],
     [load_default_config EXCEPT !.required_fields = <<"xingming">>,
                                 !.header_name_extraction = FALSE]}

(***************************************************************************)
(* Exceptions.  "" stands for no exception; an exception is named by its   *)
(* class.  main prints an exception it catches as "error: " and the name.  *)
(***************************************************************************)
NoError == ""

\* the exception parse_markdown_content raises on the text s, if any:
\* lines 85-86 read the two patterns; for the first entry visited, line 130
\* reads the field patterns and line 131 compiles each; validate_record
\* reads its two settings
parse_error(s, cfg) ==
    IF {"date_pattern", "entry_pattern"} \ DOMAIN cfg # {} THEN "KeyError"
    ELSE IF raw_entries(s) = << >> THEN NoError
    ELSE IF "field_patterns" \notin DOMAIN cfg THEN "KeyError"
    ELSE IF \E k \in DOMAIN cfg.field_patterns : re_error(cfg.field_patterns[k].label)
         THEN "re.error"
    ELSE IF "required_fields" \notin DOMAIN cfg THEN "KeyError"
    ELSE IF /\ "amount_validation" \notin DOMAIN cfg
            /\ cfg.required_fields # << >>
            /\ \E k \in DOMAIN raw_entries(s) :
                  \A f \in DOMAIN cfg.required_fields :
                      strip(get(extract_record(raw_entries(s)[k], cfg),
                                cfg.required_fields[f])) # << >>
         THEN "KeyError"
    ELSE NoError

\* a mutant of load_config: the file is merged into the configuration
load_config_merged(cfg, file) ==
    IF file # {} THEN (CHOOSE f \in file : TRUE) @@ cfg ELSE cfg

\* load_config, lines 74-78; file is {} when os.path.exists is False
load_config(cfg, file) ==
    IF file # {} THEN CHOOSE f \in file : TRUE ELSE cfg

(***************************************************************************)
(* export_to_excel, lines 214-270.  A sheet of the main table is the       *)
(* sequence of its rows; a cell a record does not have is NaN in the       *)
(* DataFrame.  An aggregate sheet is the set of its rows (pandas sorts     *)
(* them by key).                                                           *)
(***************************************************************************)
RECURSIVE Pow10(_)
Pow10(n) == IF n = 0 THEN 1 ELSE 10 * Pow10(n - 1)

\* the n digits of the number v
RECURSIVE DigitsOf(_, _)
DigitsOf(v, n) ==
    IF n = 0 THEN << >> ELSE DigitsOf(v \div 10, n - 1) \o <<ToString(v % 10)>>

PadZeros(frac, n) == frac \o [k \in 1..(n - Len(frac)) |-> "0"]

\* the sum of two amounts, digit by digit
add_floats(a, b) ==
    LET n == IF Len(a.frac) >= Len(b.frac) THEN Len(a.frac) ELSE Len(b.frac)
        f == ToNat(PadZeros(a.frac, n)) + ToNat(PadZeros(b.frac, n))
    IN  Float(a.int + b.int + (f \div Pow10(n)),
              rstrip_chars(DigitsOf(f % Pow10(n), n), {"0"}))

\* 'sum' of the column jineshuzhi over rows
RECURSIVE sum_amounts(_)
sum_amounts(rows) ==
    IF rows = << >> THEN Float(0, << >>)
    ELSE add_floats(Head(rows)["jineshuzhi"], sum_amounts(Tail(rows)))

\* "key in df.columns": some record has the key
in_columns(rows, key) == \E k \in DOMAIN rows : key \in DOMAIN rows[k]

SummaryRow(key, count, sum) == [key |-> key, count |-> count, sum |-> sum]

\* lines 252, 258, 264: df.groupby(key)["jineshuzhi"].agg(['count', 'sum']);
\* groupby leaves out the rows whose key is NaN
group_summary(rows, key) ==
    LET HasKey(r) == key \in DOMAIN r
        keyed == SelectSeq(rows, HasKey)
        members(v) == LET Is(r) == r[key] = v IN SelectSeq(keyed, Is)
    IN  {SummaryRow(keyed[k][key], Len(members(keyed[k][key])),
                    sum_amounts(members(keyed[k][key]))) : k \in DOMAIN keyed}

SummarySheet(name, rows) == [name |-> name, rows |-> rows]

\* lines 247-270: the aggregate sheets of the main table rows
summary_sheets(rows, cfg) ==
    IF ~(cfg.include_summary /\ in_columns(rows, "jineshuzhi")) THEN << >>
    ELSE (IF in_columns(rows, "riqi")
          THEN <<SummarySheet("by_date", group_summary(rows, "riqi"))>>
          ELSE << >>)
         \o (IF in_columns(rows, "zhifufangshi")
             THEN <<SummarySheet("by_payment", group_summary(rows, "zhifufangshi"))>>
             ELSE << >>)
         \o (IF in_columns(rows, "xingming")
             THEN <<SummarySheet("by_customer", group_summary(rows, "xingming"))>>
             ELSE << >>)

\* what export_to_excel leaves: the exception raised, if any, and the sheets
\* of the file written
Exported(error, main, aggregate) ==
    [error |-> error, sheet |-> main, summary |-> aggregate]

\* export_to_excel, lines 214-270: line 216 refuses an empty list; lines
\* 228 and 232 read two settings around the writing of the main sheet,
\* line 247 reads include_summary after it
export_to_excel(records, cfg) ==
    IF records = << >> THEN Exported("ValueError", << >>, << >>)
    ELSE IF "sheet_name" \notin DOMAIN cfg THEN Exported("KeyError", << >>, << >>)
    ELSE IF {"auto_resize_columns", "include_summary"} \ DOMAIN cfg # {}
         THEN Exported("KeyError", main_sheet(records), << >>)
    ELSE Exported(NoError, main_sheet(records),
                  summary_sheets(main_sheet(records), cfg))

(***************************************************************************)
(* main of markdown_to_excel.py, lines 590-639.                            *)
(***************************************************************************)
\* lines 595-597: the headless run is taken when --no-gui comes with an
\* input path, and builds a converter with the default configuration
MainStart ==
    /\ mpc = "start"
    /\ IF args.no_gui /\ args.input
       THEN mpc' = "load_config" /\ config' = load_default_config
       ELSE mpc' = "gui" /\ UNCHANGED config
    /\ UNCHANGED <<content, entries, data, sheet, mexit, rvars, avars>>
    /\ UNCHANGED mvars

\* lines 629-639: the window is opened
RunGui ==
    /\ mpc = "gui"
    /\ mpc' = "mainloop"
    /\ UNCHANGED <<content, config, entries, data, sheet, mexit, rvars, avars>>
    /\ UNCHANGED mvars

\* lines 599-600
LoadConfig ==
    /\ mpc = "load_config"
    /\ config' = IF args.config THEN load_config(config, config_file) ELSE config
    /\ mpc' = "no_summary"
    /\ UNCHANGED <<content, entries, data, sheet, mexit, rvars, avars>>
    /\ UNCHANGED mvars

\* lines 602-603; the assignment is outside the try block: without the
\* section output_settings the run ends with a traceback
NoSummary ==
    /\ mpc = "no_summary"
    /\ IF args.no_summary /\ OutputKeys \cap DOMAIN config = {}
       THEN /\ mpc' = "exit"
            /\ mexit' = {1}
            /\ printed' = <<"Traceback: KeyError">>
            /\ UNCHANGED config
       ELSE /\ mpc' = "main"
            /\ config' = IF args.no_summary
                         THEN set(config, "include_summary", FALSE)
                         ELSE config
            /\ UNCHANGED <<mexit, printed>>
    /\ UNCHANGED <<content, entries, data, sheet, avars>>
    /\ UNCHANGED <<args, config_file, input_exists, summary>>
    /\ UNCHANGED mvars

\* a mutant of ParseInput: main does not look at the number of records
ParseInputUnchecked ==
    /\ mpc = "main"
    /\ IF ~input_exists
       THEN /\ printed' = <<"error: FileNotFoundError">>
            /\ mpc' = "exit" /\ mexit' = {1}
            /\ UNCHANGED <<entries, data>>
       ELSE IF parse_error(content, config) # NoError
       THEN /\ printed' = <<"error: " \o parse_error(content, config)>>
            /\ mpc' = "exit" /\ mexit' = {1}
            /\ UNCHANGED <<entries, data>>
       ELSE /\ entries' = raw_entries(content)
            /\ data' = parse_markdown_content(content, config)
            /\ mpc' = "export" /\ UNCHANGED <<mexit, printed>>
    /\ UNCHANGED <<content, config, sheet, avars>>
    /\ UNCHANGED <<args, config_file, input_exists, summary>>
    /\ UNCHANGED mvars

\* lines 605-613: the text is read and parsed; an exception or no record
\* ends the run with exit code 1
ParseInput ==
    /\ mpc = "main"
    /\ IF ~input_exists
       THEN /\ printed' = <<"error: FileNotFoundError">>
            /\ mpc' = "exit" /\ mexit' = {1}
            /\ UNCHANGED <<entries, data>>
       ELSE IF parse_error(content, config) # NoError
       THEN /\ printed' = <<"error: " \o parse_error(content, config)>>
            /\ mpc' = "exit" /\ mexit' = {1}
            /\ UNCHANGED <<entries, data>>
       ELSE /\ entries' = raw_entries(content)
            /\ data' = parse_markdown_content(content, config)
            /\ IF data' = << >>
               THEN /\ printed' = <<"error: no data">>
                    /\ mpc' = "exit" /\ mexit' = {1}
               ELSE mpc' = "export" /\ UNCHANGED <<mexit, printed>>
    /\ UNCHANGED <<content, config, sheet, avars>>
    /\ UNCHANGED <<args, config_file, input_exists, summary>>
    /\ UNCHANGED mvars

\* lines 615-628: export_to_excel writes the sheets, then the output path
\* and the number of records are printed; or export_to_excel or the writer
\* raises and main exits with 1
ExportToExcel ==
    /\ mpc = "export"
    /\ LET out == export_to_excel(data, config)
       IN  \/ /\ out.error = NoError
              /\ sheet' = out.sheet
              /\ summary' = out.summary
              /\ printed' = <<"done", "records: " \o ToString(Len(data))>>
              /\ mexit' = {0}
           \/ /\ sheet' = IF out.error # NoError THEN out.sheet ELSE sheet
              /\ UNCHANGED summary
              /\ printed' = <<"error: " \o (IF out.error # NoError THEN out.error
                                            ELSE "OSError")>>
              /\ mexit' = {1}
    /\ mpc' = "exit"
    /\ UNCHANGED <<content, config, entries, data, avars>>
    /\ UNCHANGED <<args, config_file, input_exists>>
    /\ UNCHANGED mvars

MarkerIdle ==
    /\ disk = [p \in Paths |-> NoFile]
    /\ pc = "idle"
    /\ file_path = None
    /\ output_path = None
    /\ df = << >>
    /\ pre_2025 = {}
    /\ ws = << >>
    /\ new_count = 0
    /\ existing_count = 0
    /\ stages = << >>
    /\ exit_code = {}
    /\ produced = {}
    /\ groups = << >>

InitMd ==
    /\ MarkerIdle
    /\ content \in Documents
    /\ config \in Configs
    /\ mpc = "main"
    /\ entries = << >>
    /\ data = << >>
    /\ sheet = << >>
    /\ mexit = {}
    /\ args = Args(TRUE, TRUE, FALSE, FALSE)
    /\ config_file = {}
    /\ input_exists = TRUE
    /\ summary = << >>
    /\ printed = << >>
    /\ amount_arg = << >>
    /\ amount_value = NoAmount

NextMd ==
    \/ ParseInput
    \/ ExportToExcel

SpecMd == InitMd /\ [][NextMd]_vars

(***************************************************************************)
(* Runs of main with any command line and configuration file.              *)
(***************************************************************************)
\* an entry with a bare name, an amount and a payment method ("wei" "xin")
EntryPaid ==
    <<"#", "#", "#", " ", "zhang", "san", "\n", "jiao", "yi", "jin", "e",
      "fcolon", "7", "yuan", "fsemi", "zhi", "fu", "fang", "shi4", "fcolon",
      "wei", "xin", "fsemi", "\n">>

RunFragments == {Heading1, Heading2, EntryBareName, EntryLabelledName,
                 EntryPaid, Hash}

MaxRunFragments == 3

RunDocuments ==
    {Flatten(fs) : fs \in UNION {[1..n -> RunFragments] : n \in 0..MaxRunFragments}}

\* the part of a configuration with the given keys
Restrict(cfg, keys) == [k \in keys |-> cfg[k]]

\* the default configuration with another entry pattern
FileEntryPattern == [load_default_config EXCEPT !.entry_pattern = "#### (.+)"]
\* with a field pattern that does not compile
FileBadFieldPattern ==
    [load_default_config EXCEPT
        !.field_patterns = [default_field_patterns EXCEPT
                               ![9] = FieldPattern("beizhu", BadPattern, {})]]
\* with a header name pattern that does not compile
FileBadHeaderPattern ==
    [load_default_config EXCEPT
        !.header_name_patterns = <<BadPattern>> \o default_header_name_patterns]
\* without summary
FileNoSummary == [load_default_config EXCEPT !.include_summary = FALSE]
\* a file with the section output_settings only
FileOutputOnly == Restrict(load_default_config, OutputKeys)
\* a file without the section output_settings
FileNoOutput == Restrict(load_default_config, ParsingKeys \cup ValidationKeys)
\* a file with two field patterns (amount, payment method), that requires
\* the amount, and that leaves the header name settings out
FileAmounts ==
    [Restrict(load_default_config,
              (ParsingKeys \ {"header_name_extraction", "header_name_patterns"})
              \cup OutputKeys \cup ValidationKeys)
     EXCEPT !.field_patterns = <<default_field_patterns[3], default_field_patterns[7]>>,
            !.required_fields = <<"jiaoyijine">>]

ConfigFiles == {FileEntryPattern, FileBadFieldPattern, FileBadHeaderPattern,
                FileNoSummary, FileOutputOnly, FileNoOutput, FileAmounts}

\* the command lines: headless with and without --config and --no-summary,
\* and the ones that open the window
RunArgs ==
    {Args(TRUE, TRUE, c, ns) : c, ns \in BOOLEAN}
    \cup {Args(FALSE, TRUE, FALSE, FALSE), Args(TRUE, FALSE, FALSE, FALSE),
          Args(FALSE, FALSE, FALSE, FALSE)}

InitRun ==
    /\ MarkerIdle
    /\ args \in RunArgs
    /\ config_file \in IF args.config THEN {{}} \cup {{f} : f \in ConfigFiles}
                       ELSE {{}}
    /\ input_exists \in IF args.no_gui /\ args.input THEN BOOLEAN ELSE {FALSE}
    /\ content \in IF input_exists THEN RunDocuments ELSE {<< >>}
    /\ config = None
    /\ mpc = "start"
    /\ entries = << >>
    /\ data = << >>
    /\ sheet = << >>
    /\ mexit = {}
    /\ summary = << >>
    /\ printed = << >>
    /\ amount_arg = << >>
    /\ amount_value = NoAmount

NextRun ==
    \/ MainStart
    \/ RunGui
    \/ LoadConfig
    \/ NoSummary
    \/ ParseInput
    \/ ExportToExcel

SpecRun == InitRun /\ [][NextRun]_vars

(***************************************************************************)
(* Calls of clean_amount on any amount text: up to MaxAmountLen characters *)
(* of AmountChars, and the texts of the examples.                          *)
(***************************************************************************)
AmountChars == {"1", "0", ",", ".", "-", "yuan"}

MaxAmountLen == 4

AmountStrings ==
    UNION {[1..n -> AmountChars] : n \in 0..MaxAmountLen}
    \cup {<<"1", ",", "2", "3", "4", ".", "5", "yuan">>, <<"a", "b", "c">>}

\* clean_amount is called, and returns or raises
CleanAmount ==
    /\ mpc = "clean_amount"
    /\ IF clean_amount_raises(amount_arg)
       THEN mpc' = "raise" /\ UNCHANGED amount_value
       ELSE mpc' = "return" /\ amount_value' = clean_amount(amount_arg)
    /\ UNCHANGED <<content, config, entries, data, sheet, mexit, rvars, amount_arg>>
    /\ UNCHANGED mvars

InitAmount ==
    /\ MarkerIdle
    /\ content = << >>
    /\ config = load_default_config
    /\ mpc = "clean_amount"
    /\ entries = << >>
    /\ data = << >>
    /\ sheet = << >>
    /\ mexit = {}
    /\ args = NoArgs
    /\ config_file = {}
    /\ input_exists = FALSE
    /\ summary = << >>
    /\ printed = << >>
    /\ amount_arg \in AmountStrings
    /\ amount_value = NoAmount

NextAmount ==
    \/ CleanAmount

SpecAmount == InitAmount /\ [][NextAmount]_vars

(***************************************************************************)
(* Conversions of a text with one entry whose amount is any amount text:   *)
(* validate_record, then clean_amount in export_to_excel, see that text.   *)
(***************************************************************************)
\* an entry with a bare name and the amount text a
AmountEntry(a) ==
    <<"#", "#", "#", " ", "zhang", "san", "\n", "jiao", "yi", "jin", "e",
      "fcolon">> \o a \o <<"fsemi", "\n">>

InitValidate ==
    /\ MarkerIdle
    /\ amount_arg \in AmountStrings
    /\ content = Heading1 \o AmountEntry(amount_arg)
    /\ config \in Configs
    /\ mpc = "main"
    /\ entries = << >>
    /\ data = << >>
    /\ sheet = << >>
    /\ mexit = {}
    /\ args = Args(TRUE, TRUE, FALSE, FALSE)
    /\ config_file = {}
    /\ input_exists = TRUE
    /\ summary = << >>
    /\ printed = << >>
    /\ amount_value = NoAmount

NextValidate ==
    \/ ParseInput
    \/ ExportToExcel

SpecValidate == InitValidate /\ [][NextValidate]_vars

(***************************************************************************)
(* Properties of the customer type marker.                                 *)
(* The notions of the statements are taken from the input file, not from   *)
(* the table the tool computes: row i of the table is grid row i + 2.      *)
(***************************************************************************)
Classified == \E k \in DOMAIN stages : stages[k] = Stage("classify", TRUE)
Formatted == \E k \in DOMAIN stages : stages[k] = Stage("format", TRUE)

InputRow(i) == disk[file_path].rows[i + 2]
HasDate(i) == InputRow(i).C.value.t = "ts"
HasId(i) == InputRow(i).G.value.t = "str"
DatedBefore2025(i) == HasDate(i) /\ InputRow(i).C.value.n < 20250101
\* the identifiers occurring on rows dated strictly before 2025-01-01
PreCutoffIds == {InputRow(j).G.value : j \in {k \in DOMAIN df : DatedBefore2025(k)}}
Label(i) == df[i][mark_col_idx]

\* C1: after mark_customer_types, a row with a parseable date and an
\* identifier is labelled "cunliang" (existing) if its date is before
\* 2025-01-01 or its identifier occurs on a row dated before 2025-01-01, and
\* "xinzeng" (new) otherwise, 2025-01-01 itself included.
C1_LabelRule ==
    Classified =>
        \A i \in DOMAIN df :
            (HasDate(i) /\ HasId(i)) =>
                Label(i) = IF DatedBefore2025(i) \/ InputRow(i).G.value \in PreCutoffIds
                           THEN Str("cunliang")
                           ELSE Str("xinzeng")

\* a row dated 2025-01-01 of a customer seen in 2024 is labelled existing
C1_Witness ==
    /\ Classified
    /\ \E i, j \in DOMAIN df :
          /\ InputRow(i).C.value = Ts(20241231)
          /\ InputRow(j).C.value = Ts(20250101)
          /\ HasId(i)
          /\ InputRow(i).G.value = InputRow(j).G.value
          /\ Label(j) = Str("cunliang")

\* C2, as stated: after mark_customer_types every row dated before
\* 2025-01-01 is labelled existing, whatever its identifier cell holds.
C2_AllPre2025Existing ==
    Classified =>
        \A i \in DOMAIN df : DatedBefore2025(i) => Label(i) = Str("cunliang")

\* C2, amended: after mark_customer_types every row dated before 2025-01-01
\* whose identifier cell is not empty is labelled existing.
C2_Pre2025WithIdExisting ==
    Classified =>
        \A i \in DOMAIN df :
            (DatedBefore2025(i) /\ HasId(i)) => Label(i) = Str("cunliang")

C2_Witness ==
    /\ Classified
    /\ \E i \in DOMAIN df :
          DatedBefore2025(i) /\ HasId(i) /\ Label(i) = Str("cunliang")

\* C3: a row whose date cell is empty or no date, or whose identifier cell
\* is empty, gets neither label (its mark is the empty string), the format
\* stage leaves the fill of its mark cell as it was in the file, and the
\* set pre_2025_customers holds only identifiers of rows that have a date.
C3_UnlabelledRows ==
    /\ Classified =>
          /\ \A i \in DOMAIN df : (~HasDate(i) \/ ~HasId(i)) => Label(i) = Str("")
          /\ \A x \in pre_2025 :
                \E i \in DOMAIN df : HasDate(i) /\ InputRow(i).G.value = x
    /\ pc = "save" =>
          \A i \in DOMAIN df :
              (~HasDate(i) \/ ~HasId(i)) =>
                  /\ ws[i + 2].T.fill = InputRow(i).T.fill
                  /\ ws[i + 2].T.value = Str("")

\* a row with the unparseable date "abc" that carried a label and a fill
\* in the file: formatted, its label is gone and its fill is untouched
C3_Witness ==
    /\ pc = "save"
    /\ \E i \in DOMAIN df :
          /\ InputRow(i).C.value = Str("abc")
          /\ HasId(i)
          /\ InputRow(i).T = Cell(Str("xinzeng"), "C6EFCE")
          /\ ws[i + 2].T = Cell(Str(""), "C6EFCE")
    /\ \E i \in DOMAIN df : ~HasDate(i) /\ InputRow(i).G.value = Str("B")
    /\ Str("B") \notin pre_2025

\* C4: when the tool runs on a file an earlier run has saved, the label it
\* computes for every row is the label that run wrote into the file.
C4_Idempotent ==
    (Classified /\ file_path \in produced) =>
        \A i \in DOMAIN df : Label(i) = InputRow(i).T.value

\* a second run on a produced file that carries both labels
C4_Witness ==
    /\ pc = "save"
    /\ file_path \in produced
    /\ \E i, j \in DOMAIN df :
          /\ InputRow(i).T.value = Str("xinzeng") /\ Label(i) = Str("xinzeng")
          /\ InputRow(j).T.value = Str("cunliang") /\ Label(j) = Str("cunliang")

\* C5: on every workbook of generate_test_data the tool labels the rows of
\* 2024 and the rows of 2025 drawn from old_customers existing and the rows
\* drawn from new_customers new, and counts them so.
C5_TestExpectation ==
    Classified =>
        /\ \A i \in DOMAIN df :
              Label(i) = IF groups[i] = "2025new" THEN Str("xinzeng")
                         ELSE Str("cunliang")
        /\ existing_count = Num2024Orders + Num2025OldOrders
        /\ new_count = Num2025NewOrders

\* C6: process() calls the stages in the order load, validate, classify,
\* format, save and stops at the first that fails; validation succeeds only
\* with at least 20 columns; a file is written only when all five succeeded;
\* the exit code is 1 after a failure and 0 only after a successful save.
StageNames == [k \in DOMAIN stages |-> stages[k].stage]
AllStagesOk ==
    /\ Len(stages) = 5
    /\ \A k \in DOMAIN stages : stages[k].ok
C6_StageOrder ==
    /\ Len(stages) <= 5
    /\ StageNames = SubSeq(<<"load", "validate", "classify", "format", "save">>,
                           1, Len(stages))
    /\ \A k \in DOMAIN stages : (k < Len(stages)) => stages[k].ok
    /\ (\E k \in DOMAIN stages : ~stages[k].ok) => (pc = "exit" /\ exit_code = {1})
    /\ Stage("validate", TRUE) \in {stages[k] : k \in DOMAIN stages}
          => disk[file_path].ncols >= 20
    /\ produced # {} => AllStagesOk
    /\ exit_code = {0} <=> AllStagesOk
    /\ pc = "exit" => exit_code \in {{0}, {1}}

\* a run stopped by the validation of a sheet of 19 columns
C6_Witness ==
    /\ pc = "exit"
    /\ exit_code = {1}
    /\ stages = <<Stage("load", TRUE), Stage("validate", FALSE)>>
    /\ produced = {}

\* C18: the format stage writes the label of the table row i (counted from
\* 0: row i + 1 of df) into the cell T of grid row i + 3; it sets the fill
\* C6EFCE exactly on the cells whose label is 'new' and FFEB9C exactly on
\* those whose label is 'existing', and leaves the fill of the others, the
\* cells of the other columns and the rows 1 and 2 as they were in the file.
C18_FormatFrame ==
    /\ COLOR_NEW_CUSTOMER = "C6EFCE"
    /\ COLOR_EXISTING_CUSTOMER = "FFEB9C"
    /\ "C6EFCE" # "FFEB9C"
    /\ start_row = 3
    /\ mark_col_idx + 1 = 20
    /\ ColumnLetter(mark_col_idx) = "T"
    /\ pc = "save" =>
          /\ Len(ws) = Len(disk[file_path].rows)
          /\ ws[1] = disk[file_path].rows[1]
          /\ ws[2] = disk[file_path].rows[2]
          /\ \A i \in 0..(Len(df) - 1) :
                LET label == df[i + 1][mark_col_idx]
                    cell == ws[i + 3]
                    before == disk[file_path].rows[i + 3]
                IN  /\ cell.T.value = label
                    /\ cell.T.fill = (IF label = Str("xinzeng") THEN "C6EFCE"
                                      ELSE IF label = Str("cunliang") THEN "FFEB9C"
                                      ELSE before.T.fill)
                    /\ cell.C = before.C
                    /\ cell.G = before.G

\* a file with a row of 2024 and a row of 2025 of another customer, both
\* unmarked: formatted, T3 is 'existing' on FFEB9C and T4 'new' on C6EFCE
C18_Witness ==
    /\ pc = "save"
    /\ Len(df) = 2
    /\ disk[file_path].rows[3].T = BlankMark
    /\ disk[file_path].rows[4].T = BlankMark
    /\ ws[3].T = Cell(Str("cunliang"), "FFEB9C")
    /\ ws[4].T = Cell(Str("xinzeng"), "C6EFCE")

\* C19: after the classification, the identifier of every row with a date
\* before 2025-01-01 and an identifier is in the set pre_2025_customers; so
\* a row that got a label is 'existing' exactly when its identifier is in
\* that set, and 'new' exactly when it is not.
C19_DateClauseRedundant ==
    Classified =>
        /\ \A i \in DOMAIN df :
              (DatedBefore2025(i) /\ HasId(i)) => InputRow(i).G.value \in pre_2025
        /\ \A i \in DOMAIN df :
              Label(i) \in {Str("cunliang"), Str("xinzeng")} =>
                  /\ (Label(i) = Str("cunliang")) = (InputRow(i).G.value \in pre_2025)
                  /\ (Label(i) = Str("xinzeng")) = (InputRow(i).G.value \notin pre_2025)

\* the only row of customer A is of 2024-12-31: A is in the set and the row
\* is 'existing'; a row of 2025 of customer B is 'new'
C19_Witness ==
    /\ Classified
    /\ Len(df) = 2
    /\ InputRow(1).C.value = Ts(20241231)
    /\ InputRow(1).G.value = Str("A")
    /\ InputRow(2).C.value = Ts(20250101)
    /\ InputRow(2).G.value = Str("B")
    /\ pre_2025 = {Str("A")}
    /\ Label(1) = Str("cunliang")
    /\ Label(2) = Str("xinzeng")

(***************************************************************************)
(* Properties of the markdown converter.                                   *)
(* The segmentation is restated on the whole text, by positions: a date    *)
(* heading is a place where the date pattern matches, an entry marker a    *)
(* place where "### " stands.                                              *)
(***************************************************************************)
Parsed == mpc # "main"
EntryMarker == <<"#", "#", "#", " ">>

\* the nearest date heading at or before p, or 0
HeadingBefore(s, p) ==
    IF \E q \in 1..p : DateAt(s, q)
    THEN CHOOSE q \in 1..p : DateAt(s, q) /\ \A q2 \in (q + 1)..p : ~DateAt(s, q2)
    ELSE 0

\* the next date heading after p, or the end of the text
NextHeading(s, p) ==
    IF \E q \in (p + 1)..Len(s) : DateAt(s, q)
    THEN CHOOSE q \in (p + 1)..Len(s) :
             DateAt(s, q) /\ \A q2 \in (p + 1)..(q - 1) : ~DateAt(s, q2)
    ELSE Len(s) + 1

\* an entry marker at p that lies inside the section of a date heading
MarkerInSection(s, p) ==
    /\ LitAt(s, p, EntryMarker)
    /\ HeadingBefore(s, p) # 0
    /\ p + 3 < NextHeading(s, p)

\* the fragment that follows the marker at p: up to the next marker of the
\* section, or to the end of the section
FragmentEnd(s, p) ==
    LET limit == NextHeading(s, p)
    IN  IF \E q \in (p + 1)..(limit - 1) : MarkerInSection(s, q)
        THEN CHOOSE q \in (p + 1)..(limit - 1) :
                 MarkerInSection(s, q) /\ \A q2 \in (p + 1)..(q - 1) : ~MarkerInSection(s, q2)
        ELSE limit

NonBlank(text) == \E k \in DOMAIN text : text[k] \notin {" ", "\n"}

RECURSIVE DocEntriesFrom(_, _)
DocEntriesFrom(s, p) ==
    IF p > Len(s) THEN << >>
    ELSE (IF MarkerInSection(s, p) /\ NonBlank(Slice(s, p + 4, FragmentEnd(s, p)))
          THEN <<[date |-> Slice(s, HeadingBefore(s, p) + 3, HeadingBefore(s, p) + 13),
                  text |-> Slice(s, p + 4, FragmentEnd(s, p))]>>
          ELSE << >>)
         \o DocEntriesFrom(s, p + 1)

\* the non-blank fragments that follow an entry marker inside a date
\* section, in document order, each with the date of its heading
DocEntries(s) == DocEntriesFrom(s, 1)

\* C7: the entries parse_markdown_content considers are the non-blank
\* fragments that follow an entry marker inside a date section, each with
\* the date of the nearest heading before it, in document order; and the
\* records are the valid ones among their records, in that order.
C7_Segmentation ==
    Parsed =>
        /\ entries = DocEntries(content)
        /\ data = SelectSeq([k \in DOMAIN entries |-> extract_record(entries[k], config)],
                            LAMBDA r : validate_record(r, config))
        /\ Len(data) <= Len(entries)

\* the example: three entries under the first heading, one under the second
C7_Witness ==
    /\ Parsed
    /\ content = ExampleDocument
    /\ config = load_default_config
    /\ Len(entries) = 4
    /\ [k \in 1..4 |-> entries[k].date] =
          << <<"2", "0", "2", "4", "-", "0", "1", "-", "0", "1">>,
             <<"2", "0", "2", "4", "-", "0", "1", "-", "0", "1">>,
             <<"2", "0", "2", "4", "-", "0", "1", "-", "0", "1">>,
             <<"2", "0", "2", "4", "-", "0", "1", "-", "0", "2">> >>
    /\ [k \in 1..4 |-> data[k]["riqi"]] = [k \in 1..4 |-> entries[k].date]
    /\ [k \in 1..4 |-> data[k]["xingming"]] =
          << <<"zhang", "san">>, <<"li", "si">>, <<"zhang", "san">>, <<"li", "si">> >>

\* the position of the first date heading, or 0
FirstHeading(s) == IF NextHeading(s, 0) > Len(s) THEN 0 ELSE NextHeading(s, 0)

\* the text from its first date heading on
FromFirstHeading(s) ==
    IF FirstHeading(s) = 0 THEN << >> ELSE Slice(s, FirstHeading(s), Len(s) + 1)

\* C8: the text before the first date heading contributes no record: the
\* records are those of the text from the first heading on, and a text
\* without a date heading yields none.
C8_PreambleSkipped ==
    Parsed =>
        /\ data = parse_markdown_content(FromFirstHeading(content), config)
        /\ FirstHeading(content) = 0 => data = << >>
        /\ \A k \in DOMAIN data : Len(data[k]["riqi"]) = 10

\* a valid entry stands before the first heading, another one after it:
\* only the second is a record
C8_Witness ==
    /\ Parsed
    /\ config = load_default_config
    /\ content = EntryBareName \o Heading1 \o EntryLabelledName
    /\ Len(data) = 1
    /\ data[1]["xingming"] = <<"li", "si">>

\* the first line of an entry, and the customer names of the texts
FirstLine(text) ==
    LET t == strip(text)
    IN  Slice(t, 1, 1 + RunLengthNot(t, 1, {"\n"}))
NameCharacters == {"zhang", "san", "li", "si"}
BareName(line) ==
    /\ line # << >>
    /\ Len(line) <= 10
    /\ \A k \in DOMAIN line : line[k] \in NameCharacters
NameLabel == <<"xing", "ming">>
AmountLabel == <<"jiao", "yi", "jin", "e", "fcolon">>
HasLabelledName(text) ==
    \E p \in DOMAIN text :
        LitAt(text, p, NameLabel) /\ p + 2 <= Len(text) /\ text[p + 2] \in {"fcolon", ":"}
\* the text between the first amount label and the semicolon that follows it
LabelledAmount(text) ==
    LET p == FindLit(text, AmountLabel, 1)
        a == p + Len(AmountLabel)
    IN  IF p = 0 THEN << >>
        ELSE Slice(text, a, a + RunLengthNot(text, a, {"fsemi", ";"}))
\* an amount text that needs no trimming
PlainAmount(t) ==
    /\ t # << >>
    /\ \A k \in DOMAIN t : t[k] \notin {" ", "\n"}
    /\ t[Len(t)] \notin {"fstop", "."}
\* the validation of the configuration keeps a record with this name and amount
Kept(cfg, amount) ==
    /\ \A k \in DOMAIN cfg.required_fields :
          cfg.required_fields[k] \in {"xingming", "jiaoyijine"}
    /\ (cfg.required_fields # << >> /\ cfg.amount_validation) =>
          \E k \in DOMAIN amount : amount[k] \in Digits

\* C9: an entry whose first line is a bare name, without a labelled name,
\* with a labelled amount: once exported, a row of the main sheet carries
\* the date of the entry, the name of the first line, the amount text
\* without its semicolon, and its number (100.5 for "100.50yuan", 0 for
\* "abc"), provided the validation rules keep such a record.
C9_HeaderNameAndAmount ==
    (mpc = "exit" /\ mexit = {0} /\ config.header_name_extraction) =>
        \A k \in DOMAIN entries :
            LET text == entries[k].text
                name == FirstLine(text)
                amount == LabelledAmount(text)
            IN  (/\ BareName(name)
                 /\ ~HasLabelledName(text)
                 /\ PlainAmount(amount)
                 /\ Kept(config, amount)) =>
                    \E j \in DOMAIN sheet :
                        /\ sheet[j]["riqi"] = entries[k].date
                        /\ sheet[j]["xingming"] = name
                        /\ sheet[j]["jiaoyijine"] = amount
                        /\ amount = <<"1", "0", "0", ".", "5", "0", "yuan">>
                              => sheet[j]["jineshuzhi"] = [int |-> 100, frac |-> <<"5">>]
                        /\ amount = <<"a", "b", "c">>
                              => sheet[j]["jineshuzhi"] = [int |-> 0, frac |-> << >>]

\* the entry of the example alone under a heading
C9_Witness ==
    /\ mpc = "exit"
    /\ mexit = {0}
    /\ config = load_default_config
    /\ content = Heading1 \o EntryBareName
    /\ Len(sheet) = 1
    /\ sheet[1]["xingming"] = <<"zhang", "san">>
    /\ sheet[1]["jiaoyijine"] = <<"1", "0", "0", ".", "5", "0", "yuan">>
    /\ sheet[1]["jineshuzhi"] = [int |-> 100, frac |-> <<"5">>]

\* C10: every record parse_markdown_content returns holds, for every
\* required field of the configuration, a value with a character that is
\* no whitespace.
C10_RequiredFieldsPresent ==
    Parsed =>
        \A j \in DOMAIN data :
            \A k \in DOMAIN config.required_fields :
                /\ config.required_fields[k] \in DOMAIN data[j]
                /\ NonBlank(data[j][config.required_fields[k]])

\* with the default rules, an entry without an amount is left out while
\* another entry of the text is kept
C10_Witness ==
    /\ Parsed
    /\ config = load_default_config
    /\ content = Heading1 \o EntryNoAmount \o EntryBareName
    /\ Len(entries) = 2
    /\ Len(data) = 1
    /\ data[1]["jiaoyijine"] = <<"1", "0", "0", ".", "5", "0", "yuan">>

\* C11: with amount validation enabled, no record parse_markdown_content
\* returns has an amount text that is non-empty and holds no digit, whatever
\* the required fields of the configuration are (none, or without the amount).
C11_AmountValidated ==
    (Parsed /\ config.amount_validation) =>
        \A j \in DOMAIN data :
            LET amount == get(data[j], "jiaoyijine")
            IN  amount # << >> => \E k \in DOMAIN amount : amount[k] \in Digits

\* C17: the name of a record is the name extract_name_from_header gives for
\* its entry whenever it gives one; the labelled name of the entry text is
\* the name only of an entry without a header name.
C17_HeaderNameFirst ==
    (Parsed /\ mexit # {1}) =>
        \A j \in DOMAIN data :
            \E k \in DOMAIN entries :
                /\ data[j] = extract_record(entries[k], config)
                /\ extract_name_from_header(entries[k].text, config) # << >>
                      => data[j]["xingming"]
                            = extract_name_from_header(entries[k].text, config)

\* the name pattern of the configuration
NamePattern(cfg) ==
    cfg.field_patterns[CHOOSE k \in DOMAIN cfg.field_patterns :
                          cfg.field_patterns[k].name = "xingming"]

\* C17 as the code has it: the labelled name comes first.  Whenever the name
\* pattern matches in the entry text, the name of the record is the text it
\* captures (trimmed, without trailing punctuation), whatever the header
\* line gave; the header name is the name of the record only when the name
\* pattern does not match.
C17_LabelledNameFirst ==
    (Parsed /\ mexit # {1}) =>
        \A j \in DOMAIN data :
            \E k \in DOMAIN entries :
                LET text == entries[k].text
                    labelled == field_search(NamePattern(config), text)
                    header == extract_name_from_header(text, config)
                IN  /\ data[j] = extract_record(entries[k], config)
                    /\ data[j]["riqi"] = entries[k].date
                    /\ IF labelled.ok
                       THEN data[j]["xingming"] =
                               rstrip_chars(strip(labelled.group), TrailingPunctuation)
                       ELSE data[j]["xingming"] = header

\* an entry with the header name "zhang san" and the labelled name "li si"
\* gave a record named "li si"
C17_Witness ==
    /\ Parsed
    /\ config = load_default_config
    /\ content = Heading1 \o EntryBothNames
    /\ Len(data) = 1
    /\ extract_name_from_header(entries[1].text, config) = <<"zhang", "san">>
    /\ data[1]["xingming"] = <<"li", "si">>

(***************************************************************************)
(* Properties of clean_amount.                                             *)
(***************************************************************************)
\* the text without its commas
Uncomma(text) == SelectSeq(text, LAMBDA ch : ch # ",")
\* the number written by the digits ds, and by the digits ds after a point
RECURSIVE Whole(_)
Whole(ds) ==
    IF ds = << >> THEN 0
    ELSE 10 * Whole(SubSeq(ds, 1, Len(ds) - 1))
         + (CHOOSE v \in 0..9 : ds[Len(ds)] = ToString(v))
RECURSIVE Fraction(_)
Fraction(ds) ==
    IF ds # << >> /\ ds[Len(ds)] = "0" THEN Fraction(SubSeq(ds, 1, Len(ds) - 1))
    ELSE ds
\* the first decimal number of a text t: digits from a to b, the first of
\* them the first digit of t, then possibly a point and the digits up to c
FirstNumber(t, a, b, c) ==
    /\ a <= b /\ b <= c /\ c <= Len(t)
    /\ \A k \in 1..(a - 1) : t[k] \notin Digits
    /\ \A k \in a..b : t[k] \in Digits
    /\ b < Len(t) => t[b + 1] \notin Digits
    /\ IF b < Len(t) /\ t[b + 1] = "."
       THEN /\ c > b
            /\ \A k \in (b + 2)..c : t[k] \in Digits
            /\ c < Len(t) => t[c + 1] \notin Digits
       ELSE c = b

\* C12: a call of clean_amount never raises; it returns the first decimal
\* number of the text without its commas, 0 for a text without a digit; so
\* 1234.5 for "1,234.5yuan", 0 for "" and for "abc"; never a negative value.
C12_CleanAmount ==
    /\ mpc # "raise"
    /\ mpc = "return" =>
        LET t == Uncomma(amount_arg)
        IN  /\ amount_value.int >= 0
            /\ (\A k \in DOMAIN amount_arg : amount_arg[k] \notin Digits)
                  => amount_value = [int |-> 0, frac |-> << >>]
            /\ \A a, b, c \in DOMAIN t :
                  FirstNumber(t, a, b, c) =>
                      amount_value = [int |-> Whole(SubSeq(t, a, b)),
                                      frac |-> Fraction(SubSeq(t, b + 2, c))]
            /\ amount_arg = <<"1", ",", "2", "3", "4", ".", "5", "yuan">>
                  => amount_value = [int |-> 1234, frac |-> <<"5">>]
            /\ amount_arg = << >> => amount_value = [int |-> 0, frac |-> << >>]
            /\ amount_arg = <<"a", "b", "c">>
                  => amount_value = [int |-> 0, frac |-> << >>]

\* the example with a thousands comma has been cleaned
C12_Witness ==
    /\ mpc = "return"
    /\ amount_arg = <<"1", ",", "2", "3", "4", ".", "5", "yuan">>
    /\ amount_value = [int |-> 1234, frac |-> <<"5">>]

(***************************************************************************)
(* Properties of the runs of main (SpecRun).                               *)
(***************************************************************************)
\* the text was read and parse_markdown_content was called
ParseCalled ==
    /\ mpc \in {"export", "exit"}
    /\ input_exists
    /\ printed # <<"Traceback: KeyError">>

\* the keys parse_markdown_content reads without a default
KeysRead == {"date_pattern", "entry_pattern", "field_patterns",
             "required_fields", "amount_validation"}

\* a field pattern that matches nowhere
NeverMatches(name) == [name |-> name, label |-> <<"never">>, class |-> {}]

\* the configuration in which every pattern that does not compile fails
\* silently: such a header name pattern is not tried, such a field pattern
\* matches nowhere
Degraded(cfg) ==
    LET Compiles(p) == p # <<"(">>
        fields == [k \in DOMAIN cfg.field_patterns |->
                      IF cfg.field_patterns[k].label = <<"(">>
                      THEN NeverMatches(cfg.field_patterns[k].name)
                      ELSE cfg.field_patterns[k]]
        with_fields == [cfg EXCEPT !.field_patterns = fields]
    IN  IF "header_name_patterns" \in DOMAIN cfg
        THEN [with_fields EXCEPT
                 !.header_name_patterns = SelectSeq(cfg.header_name_patterns, Compiles)]
        ELSE with_fields

\* C13: a pattern of the configuration that does not compile does not abort
\* the parse: no re.error ends the run, and the records are the ones the
\* other patterns give, the field of the failing pattern being empty.
C13_PatternFailureLocal ==
    (ParseCalled /\ KeysRead \subseteq DOMAIN config) =>
        /\ printed # <<"error: re.error">>
        /\ data = parse_markdown_content(content, Degraded(config))

\* C14: after the load step of main, the configuration is the default one
\* when no file is at the path given with --config (or no path was given),
\* and is the content of the file when there is one: it has the keys of the
\* file and no other, whatever the defaults hold.
C14_LoadConfigAllOrNothing ==
    mpc = "no_summary" =>
        IF args.config /\ config_file # {}
        THEN \A f \in config_file : config = f /\ DOMAIN config = DOMAIN f
        ELSE config = load_default_config

\* a file with the output settings only has been loaded: the validation
\* and parsing settings of the defaults are gone
C14_Witness ==
    /\ mpc = "no_summary"
    /\ args.config
    /\ config_file = {FileOutputOnly}
    /\ DOMAIN config = OutputKeys
    /\ "required_fields" \notin DOMAIN config

\* the column of the main table an aggregate sheet groups by
GroupColumn(name) ==
    CASE name = "by_date" -> "riqi"
      [] name = "by_payment" -> "zhifufangshi"
      [] name = "by_customer" -> "xingming"

\* an amount in thousandths
Thousandths(f) ==
    f.int * 1000
    + (IF Len(f.frac) >= 1 THEN 100 * (CHOOSE v \in 0..9 : f.frac[1] = ToString(v)) ELSE 0)
    + (IF Len(f.frac) >= 2 THEN 10 * (CHOOSE v \in 0..9 : f.frac[2] = ToString(v)) ELSE 0)
    + (IF Len(f.frac) >= 3 THEN (CHOOSE v \in 0..9 : f.frac[3] = ToString(v)) ELSE 0)

\* the sum of g over the finite set S
RECURSIVE SumOver(_, _)
SumOver(S, g) ==
    IF S = {} THEN 0
    ELSE LET x == CHOOSE y \in S : TRUE IN g[x] + SumOver(S \ {x}, g)

\* the rows of the main sheet with the value v in the column
RowsWith(column, v) ==
    {k \in DOMAIN sheet : column \in DOMAIN sheet[k] /\ sheet[k][column] = v}

\* C15: once the export succeeded, aggregate sheets are written exactly when
\* include_summary is enabled and the numeric column exists, and never with
\* --no-summary; an aggregate sheet has one row for every value of its
\* column, holding the number of exported records with this value and the
\* sum of their amounts; the counts of a sheet add up to the number of
\* exported records.
C15_Summaries ==
    (mpc = "exit" /\ mexit = {0}) =>
        /\ (summary # << >>) =
              (config.include_summary /\ \E k \in DOMAIN sheet :
                                            "jineshuzhi" \in DOMAIN sheet[k])
        /\ args.no_summary => summary = << >>
        /\ \A s \in DOMAIN summary :
              LET column == GroupColumn(summary[s].name)
                  rows == summary[s].rows
              IN  /\ \A r1, r2 \in rows : r1.key = r2.key => r1 = r2
                  /\ {r.key : r \in rows} =
                        {sheet[k][column] : k \in {j \in DOMAIN sheet :
                                                      column \in DOMAIN sheet[j]}}
                  /\ \A r \in rows :
                        /\ r.count = Cardinality(RowsWith(column, r.key))
                        /\ Thousandths(r.sum) =
                              SumOver(RowsWith(column, r.key),
                                      [k \in DOMAIN sheet |->
                                          Thousandths(sheet[k]["jineshuzhi"])])
                  /\ SumOver(rows, [r \in rows |-> r.count]) = Len(sheet)

\* the run printed an error, that is, reading, parsing or exporting raised
\* or no record was found
PrintedError ==
    printed # << >> /\ printed[1] \in {"error: FileNotFoundError", "error: KeyError",
                                        "error: re.error", "error: no data",
                                        "error: ValueError", "error: OSError"}

\* C16: main takes the headless run exactly when --no-gui comes with an
\* input path.  A headless run that finds no record, or in which reading,
\* parsing or exporting raises, exits with a non-zero code; without records
\* nothing is written: main calls export_to_excel with at least one record
\* only, and export_to_excel raises on an empty list before it writes.  The
\* output path and the number of records are printed only when the export
\* succeeded.
C16_HeadlessFailures ==
    /\ mpc \in {"gui", "mainloop"} => ~(args.no_gui /\ args.input)
    /\ mpc \in {"load_config", "no_summary", "main", "export", "exit"}
          => (args.no_gui /\ args.input)
    /\ mpc = "export" => data # << >>
    /\ data = << >> => (sheet = << >> /\ summary = << >>)
    /\ (mpc = "exit" /\ (PrintedError \/ data = << >>)) =>
          (mexit = {1} /\ "done" \notin {printed[k] : k \in DOMAIN printed})
    /\ "done" \in {printed[k] : k \in DOMAIN printed} =>
          /\ mexit = {0}
          /\ data # << >>
          /\ Len(sheet) = Len(data)
          /\ printed = <<"done", "records: " \o ToString(Len(data))>>
    /\ mpc \in {"main", "export", "exit"} =>
          /\ export_to_excel(<< >>, config).error = "ValueError"
          /\ export_to_excel(<< >>, config).sheet = << >>
          /\ export_to_excel(<< >>, config).summary = << >>

\* a text with a date heading and no entry: the run ended with code 1,
\* nothing was written
C16_Witness ==
    /\ mpc = "exit"
    /\ content = Heading1
    /\ data = << >>
    /\ printed = <<"error: no data">>
    /\ mexit = {1}
    /\ sheet = << >>

\* entry patterns a configuration may hold
EntryPatterns == {"### (.+?)(?=###|##|$)", "#### (.+)", "## (.+)", ""}

\* C20: the entry pattern of the configuration does not change the result:
\* with any other entry pattern in the same configuration, the same text
\* gives the same exception or the same records; the entries are the
\* fragments after the marker '### ' (also inside '#### '), whatever the
\* pattern is.
C20_EntryPatternUnused ==
    (ParseCalled /\ "entry_pattern" \in DOMAIN config) =>
        /\ \A p \in EntryPatterns :
              LET other == [config EXCEPT !.entry_pattern = p]
              IN  /\ parse_error(content, other) = parse_error(content, config)
                  /\ parse_error(content, config) = "" =>
                        data = parse_markdown_content(content, other)
        /\ parse_error(content, config) = "" => entries = DocEntries(content)

\* with the entry pattern '#### (.+)' loaded, the entry after '#### ' is
\* found all the same
C20_Witness ==
    /\ ParseCalled
    /\ config_file = {FileEntryPattern}
    /\ config.entry_pattern = "#### (.+)"
    /\ content = Heading1 \o Hash \o EntryBareName
    /\ Len(data) = 1
    /\ data[1]["xingming"] = <<"zhang", "san">>


(***************************************************************************)
(* Properties of validation and amount cleaning together (SpecValidate).   *)
(***************************************************************************)
\* the search of clean_amount finds a number in the text
NumberFound(text) == amount_match(remove_commas(text)) # << >>

\* the amount is a required field and amount validation is enabled
AmountChecked ==
    /\ \E k \in DOMAIN config.required_fields :
          config.required_fields[k] = "jiaoyijine"
    /\ config.amount_validation

\* C21: the numeric test of validate_record on a text succeeds exactly when
\* clean_amount finds a number in the text without its commas, for the
\* amount text of the entry and for the amount of every record; so, with
\* the amount required and amount validation enabled, every record that
\* parse_markdown_content returns has an amount in which clean_amount finds
\* a number, and its numeric amount on the main sheet is the first decimal
\* number of that text without its commas, not the 0 of the branch
\* without a match.
C21_ValidationAgrees ==
    /\ has_number(amount_arg) <=> NumberFound(amount_arg)
    /\ \A k \in DOMAIN data :
          has_number(get(data[k], "jiaoyijine"))
             <=> NumberFound(get(data[k], "jiaoyijine"))
    /\ AmountChecked =>
          /\ \A k \in DOMAIN data :
                /\ get(data[k], "jiaoyijine") # << >>
                /\ NumberFound(get(data[k], "jiaoyijine"))
          /\ \A k \in DOMAIN sheet :
                LET t == Uncomma(get(data[k], "jiaoyijine"))
                IN  /\ "jineshuzhi" \in DOMAIN sheet[k]
                    /\ \E a, b, c \in DOMAIN t :
                          /\ FirstNumber(t, a, b, c)
                          /\ sheet[k]["jineshuzhi"] =
                                [int |-> Whole(SubSeq(t, a, b)),
                                 frac |-> Fraction(SubSeq(t, b + 2, c))]

\* with the defaults, the amount "-1,0" has passed validation and its
\* numeric amount on the main sheet is 10
C21_Witness ==
    /\ config = load_default_config
    /\ amount_arg = <<"-", "1", ",", "0">>
    /\ mpc = "exit"
    /\ mexit = {0}
    /\ Len(data) = 1
    /\ data[1]["jiaoyijine"] = <<"-", "1", ",", "0">>
    /\ Len(sheet) = 1
    /\ sheet[1]["jineshuzhi"] = [int |-> 10, frac |-> << >>]

====
